---- MODULE Spec2Model ----
(***************************************************************************)
(* Model of the ecommerce backend of src/main.py: the four handlers        *)
(* list_products, create_order, seed_products and test_database, run by    *)
(* concurrent request tasks against one shared document store.  Every      *)
(* store call is one atomic step; what a handler computes locally after a  *)
(* store call belongs to the same step.                                    *)
(***************************************************************************)
EXTENDS Integers, Sequences, FiniteSets, TLC

\* ------------------------------------------------------------------ bounds
\* Width in hex digits of an identifier string (24 for a real ObjectId).
OidHexLen == 2
\* First value of the store's identifier counter (random in a real driver).
FirstOid == 10
\* Largest number of line items in an order request.
MaxItems == 2
\* Largest number of order documents, stored or being created.
MaxOrders == 2

\* The request tasks the framework runs concurrently.
Procs == {"t1", "t2"}

VARIABLES
    dbHandle,   \* TRUE iff database.db is not None
    products,   \* the "product" collection, in store order
    orders,     \* the "order" collection, in store order
    nextOid,    \* nextOid[c]: the identifier the store generates next in
                \*   collection c
    op,         \* op[p]: the handler task p runs
    pc,         \* pc[p]: where task p stands in its handler
    req,        \* req[p]: the line items of the order request p handles
    idx,        \* idx[p]: loop position (item of the order, document of demo)
    count,      \* count[p]: local variable count of seed_products
    report,     \* report[p]: local variable response of test_database
    resp,       \* resp[p]: the HTTP response p has produced
    okAtStart,  \* okAtStart[p]: every item of req[p] was well-formed and
                \*   referenced a stored product when the request arrived
    trace       \* trace[p]: what p's handler has done so far, in order: the
                \*   order request taken up, each check and each store call

vars == <<dbHandle, products, orders, nextOid, op, pc, req, idx, count,
          report, resp, okAtStart, trace>>

\* ------------------------------------------------------ identifier strings
\* A string is a sequence of one-character strings.
HexDigits == <<"0", "1", "2", "3", "4", "5", "6", "7",
               "8", "9", "a", "b", "c", "d", "e", "f">>
UpperHexDigits == <<"0", "1", "2", "3", "4", "5", "6", "7",
                    "8", "9", "A", "B", "C", "D", "E", "F">>

IsHexChar(c) == \E i \in 1..16 : HexDigits[i] = c \/ UpperHexDigits[i] = c

HexValue(c) ==
    (CHOOSE i \in 1..16 : HexDigits[i] = c \/ UpperHexDigits[i] = c) - 1

RECURSIVE Pow16(_)
Pow16(n) == IF n = 0 THEN 1 ELSE 16 * Pow16(n - 1)

\* str(ObjectId): lower-case hex, fixed width.
OidStr(n) ==
    [i \in 1..OidHexLen |-> HexDigits[((n \div Pow16(OidHexLen - i)) % 16) + 1]]

\* ObjectId.is_valid(s) for a str: the right length, hex digits only.
IsValid(s) == Len(s) = OidHexLen /\ \A i \in 1..Len(s) : IsHexChar(s[i])

\* ObjectId(s): the value of a valid hex string, either case.
RECURSIVE ObjectId(_)
ObjectId(s) ==
    IF s = <<>> THEN 0
    ELSE 16 * ObjectId(SubSeq(s, 1, Len(s) - 1)) + HexValue(s[Len(s)])

\* The product_id values a client sends.
SeedId == OidStr(FirstOid)
ItemIds ==
    { SeedId,                              \* the first generated identifier
      OidStr(Pow16(OidHexLen) - 1),        \* well-formed, never generated
      [SeedId EXCEPT ![1] = "g"] }         \* the right length, not hex

OrderItem(s) == [product_id |-> s, quantity |-> 1]

RECURSIVE SeqsUpTo(_, _)
SeqsUpTo(S, n) ==
    IF n = 0 THEN {<<>>}
    ELSE LET shorter == SeqsUpTo(S, n - 1)
         IN  shorter \cup {Append(q, x) : q \in shorter, x \in S}

OrderRequests == SeqsUpTo({OrderItem(s) : s \in ItemIds}, MaxItems)

\* ---------------------------------------------------------------- the store
\* find_one({"_id": oid}) on the product collection.
FindOneProduct(oid) ==
    IF \E i \in 1..Len(products) : products[i]._id = oid
    THEN {products[CHOOSE i \in 1..Len(products) : products[i]._id = oid]}
    ELSE {}

\* The demo products of seed_products.
Demo == << [title |-> "Classic Tee", category |-> "Apparel"],
           [title |-> "Minimal Backpack", category |-> "Accessories"],
           [title |-> "Ceramic Mug", category |-> "Home"] >>

\* A stored product: the document with the generated _id.
StoredProduct(d, oid) ==
    [_id |-> oid, title |-> d.title, category |-> d.category]

StoredOrder(items, oid) == [_id |-> oid, items |-> items]

ItemResolves(item) ==
    /\ IsValid(item.product_id)
    /\ FindOneProduct(ObjectId(item.product_id)) # {}

AllResolve(items) == \A i \in 1..Len(items) : ItemResolves(items[i])

\* ---------------------------------------------------------------- responses
NoResp == [status |-> 0]
Http(status, detail) == [status |-> status, detail |-> detail]
Ok(body) == [status |-> 200, body |-> body]

\* ------------------------------------------------------------ initial state
EnvVars == {"DATABASE_URL", "DATABASE_NAME"}

NoReport == [database |-> "none"]

TypeOK ==
    /\ dbHandle \in BOOLEAN
    /\ nextOid \in [{"product", "order"} -> Nat]
    /\ \A p \in Procs :
        /\ op[p] \in {"none", "create_order", "seed_products",
                      "list_products", "test_database"}
        /\ pc[p] \in {"idle", "co_valid", "co_find", "co_insert",
                      "seed_count", "seed_insert", "list_fetch",
                      "test_handle", "test_list", "done"}
        /\ req[p] \in OrderRequests
        /\ idx[p] \in Nat
        /\ count[p] \in Nat
        /\ okAtStart[p] \in BOOLEAN

InitTasks ==
    /\ products = <<>>
    /\ orders = <<>>
    /\ nextOid = [c \in {"product", "order"} |-> FirstOid]
    /\ op = [p \in Procs |-> "none"]
    /\ pc = [p \in Procs |-> "idle"]
    /\ req = [p \in Procs |-> <<>>]
    /\ idx = [p \in Procs |-> 0]
    /\ count = [p \in Procs |-> 0]
    /\ report = [p \in Procs |-> NoReport]
    /\ resp = [p \in Procs |-> NoResp]
    /\ okAtStart = [p \in Procs |-> FALSE]
    /\ trace = [p \in Procs |-> <<>>]

\* The store is configured and reachable.
Init == dbHandle = TRUE /\ InitTasks

\* The store handle may be absent (database.db is None).
InitFault == dbHandle \in BOOLEAN /\ InitTasks

StoreVars == <<dbHandle, products, orders, nextOid>>

\* p returns r: the response goes out and the handler's locals are gone.
Finish(p, r) ==
    /\ resp' = [resp EXCEPT ![p] = r]
    /\ pc' = [pc EXCEPT ![p] = "done"]
    /\ req' = [req EXCEPT ![p] = <<>>]
    /\ idx' = [idx EXCEPT ![p] = 0]
    /\ count' = [count EXCEPT ![p] = 0]
    /\ report' = [report EXCEPT ![p] = NoReport]
    /\ okAtStart' = [okAtStart EXCEPT ![p] = FALSE]

\* p goes on to l with loop position i.
Goto(p, l, i) ==
    /\ pc' = [pc EXCEPT ![p] = l]
    /\ idx' = [idx EXCEPT ![p] = i]
    /\ UNCHANGED <<resp, req, count, report, okAtStart>>

\* p takes up a request for handler o, which begins at l.
Begin(p, o, l) ==
    /\ pc[p] = "idle"
    /\ op' = [op EXCEPT ![p] = o]
    /\ pc' = [pc EXCEPT ![p] = l]

Log(p, event) == trace' = [trace EXCEPT ![p] = Append(@, event)]

InFlight(o) == {q \in Procs : op[q] = o /\ pc[q] # "done"}

\* The text of the exception a failed store call raises.
StoreError ==
    IF dbHandle THEN "store error"
    ELSE "'NoneType' object is not subscriptable"

\* ------------------------------------------------------------- create_order
\* Mutant: the order is inserted without validating its items.
StartCreateOrder_NoValidation(p, items) ==
    /\ Len(orders) + Cardinality(InFlight("create_order")) < MaxOrders
    /\ Begin(p, "create_order", "co_insert")
    /\ req' = [req EXCEPT ![p] = items]
    /\ idx' = [idx EXCEPT ![p] = 1]
    /\ okAtStart' = [okAtStart EXCEPT ![p] = AllResolve(items)]
    /\ Log(p, <<"request", Len(items)>>)
    /\ UNCHANGED <<StoreVars, count, report, resp>>

StartCreateOrder(p, items) ==
    /\ Len(orders) + Cardinality(InFlight("create_order")) < MaxOrders
    /\ Begin(p, "create_order", IF items = <<>> THEN "co_insert" ELSE "co_valid")
    /\ req' = [req EXCEPT ![p] = items]
    /\ idx' = [idx EXCEPT ![p] = 1]
    /\ okAtStart' = [okAtStart EXCEPT ![p] = AllResolve(items)]
    /\ Log(p, <<"request", Len(items)>>)
    /\ UNCHANGED <<StoreVars, count, report, resp>>

\* Mutant: a malformed product_id is skipped instead of rejected.
IsValidCheck_SkipsInvalid(p) ==
    /\ pc[p] = "co_valid"
    /\ Log(p, <<"is_valid", idx[p]>>)
    /\ IF ~IsValid(req[p][idx[p]].product_id)
       THEN Goto(p, IF idx[p] < Len(req[p]) THEN "co_valid" ELSE "co_insert",
                 idx[p] + 1)
       ELSE Goto(p, "co_find", idx[p])
    /\ UNCHANGED <<StoreVars, op>>

\* if not ObjectId.is_valid(item.product_id): raise HTTPException(400)
IsValidCheck(p) ==
    /\ pc[p] = "co_valid"
    /\ Log(p, <<"is_valid", idx[p]>>)
    /\ LET id == req[p][idx[p]].product_id
       IN  IF ~IsValid(id)
           THEN Finish(p, Http(400, <<"Invalid product id: ", id>>))
           ELSE Goto(p, "co_find", idx[p])
    /\ UNCHANGED <<StoreVars, op>>

\* Mutant: the test of prod is inverted (if prod: raise 404).
FindOne_Inverted(p) ==
    /\ pc[p] = "co_find"
    /\ dbHandle
    /\ Log(p, <<"find_one", idx[p]>>)
    /\ LET id == req[p][idx[p]].product_id
       IN  IF FindOneProduct(ObjectId(id)) # {}
           THEN Finish(p, Http(404, <<"Product not found: ", id>>))
           ELSE Goto(p, IF idx[p] < Len(req[p]) THEN "co_valid"
                        ELSE "co_insert", idx[p] + 1)
    /\ UNCHANGED <<StoreVars, op>>

\* Mutant: a missing product is not an error.
FindOne_IgnoresMissing(p) ==
    /\ pc[p] = "co_find"
    /\ dbHandle
    /\ Log(p, <<"find_one", idx[p]>>)
    /\ Goto(p, IF idx[p] < Len(req[p]) THEN "co_valid" ELSE "co_insert",
            idx[p] + 1)
    /\ UNCHANGED <<StoreVars, op>>

\* prod = find_one(...); if not prod: raise HTTPException(404); next item
FindOne(p) ==
    /\ pc[p] = "co_find"
    /\ dbHandle
    /\ Log(p, <<"find_one", idx[p]>>)
    /\ LET id == req[p][idx[p]].product_id
       IN  IF FindOneProduct(ObjectId(id)) = {}
           THEN Finish(p, Http(404, <<"Product not found: ", id>>))
           ELSE Goto(p, IF idx[p] < Len(req[p]) THEN "co_valid"
                        ELSE "co_insert", idx[p] + 1)
    /\ UNCHANGED <<StoreVars, op>>

\* inserted_id = create_document("order", order); return id, "created"
InsertOrder(p) ==
    /\ pc[p] = "co_insert"
    /\ dbHandle
    /\ Log(p, <<"insert", 0>>)
    /\ orders' = Append(orders, StoredOrder(req[p], nextOid["order"]))
    /\ nextOid' = [nextOid EXCEPT !["order"] = @ + 1]
    /\ Finish(p, Ok([id |-> OidStr(nextOid["order"]), status |-> "created"]))
    /\ UNCHANGED <<dbHandle, products, op>>

\* ------------------------------------------------------------ seed_products
StartSeed(p) ==
    /\ Begin(p, "seed_products", "seed_count")
    /\ UNCHANGED <<StoreVars, req, idx, count, report, resp, okAtStart, trace>>

\* Mutant: the seeded collection is not recognised (the test never holds).
CountDocuments_NoCheck(p) ==
    /\ pc[p] = "seed_count"
    /\ dbHandle
    /\ Log(p, <<"count_documents", 1>>)
    /\ pc' = [pc EXCEPT ![p] = "seed_insert"]
    /\ idx' = [idx EXCEPT ![p] = 1]
    /\ count' = [count EXCEPT ![p] = Len(products)]
    /\ UNCHANGED <<resp, req, report, okAtStart>>
    /\ UNCHANGED <<StoreVars, op>>

\* count = count_documents({}); if count > 0: return "already seeded"
CountDocuments(p) ==
    /\ pc[p] = "seed_count"
    /\ dbHandle
    /\ Log(p, <<"count_documents", 1>>)
    /\ IF Len(products) > 0
       THEN Finish(p, Ok([message |-> "Products already seeded",
                          count |-> Len(products)]))
       ELSE /\ pc' = [pc EXCEPT ![p] = "seed_insert"]
            /\ idx' = [idx EXCEPT ![p] = 1]
            /\ count' = [count EXCEPT ![p] = Len(products)]
            /\ UNCHANGED <<resp, req, report, okAtStart>>
    /\ UNCHANGED <<StoreVars, op>>

\* Mutant: each insert is guarded by a fresh look at the collection; a call
\* that finds the demo data arriving from another call stops inserting.
SeedInsert_Guarded(p) ==
    /\ pc[p] = "seed_insert"
    /\ dbHandle
    /\ Log(p, <<"insert", idx[p]>>)
    /\ IF Len(products) >= idx[p]
       THEN /\ Finish(p, Ok([message |-> "Products already seeded",
                             count |-> Len(products)]))
            /\ UNCHANGED <<products, nextOid>>
       ELSE /\ products' = Append(products,
                      StoredProduct(Demo[idx[p]], nextOid["product"]))
            /\ nextOid' = [nextOid EXCEPT !["product"] = @ + 1]
            /\ IF idx[p] = Len(Demo)
               THEN Finish(p, Ok([message |-> "Seeded", count |-> Len(Demo)]))
               ELSE Goto(p, "seed_insert", idx[p] + 1)
    /\ UNCHANGED <<dbHandle, orders, op>>

\* for d in demo: create_document("product", d); return "Seeded", len(demo)
SeedInsert(p) ==
    /\ pc[p] = "seed_insert"
    /\ dbHandle
    /\ Log(p, <<"insert", idx[p]>>)
    /\ products' = Append(products,
                          StoredProduct(Demo[idx[p]], nextOid["product"]))
    /\ nextOid' = [nextOid EXCEPT !["product"] = @ + 1]
    /\ IF idx[p] = Len(Demo)
       THEN Finish(p, Ok([message |-> "Seeded", count |-> Len(Demo)]))
       ELSE Goto(p, "seed_insert", idx[p] + 1)
    /\ UNCHANGED <<dbHandle, orders, op>>

\* A store call of seed_products raises: except Exception -> 500.
CountDocumentsRaises(p) ==
    /\ pc[p] = "seed_count"
    /\ Log(p, <<"raised", 0>>)
    /\ Finish(p, Http(500, StoreError))
    /\ UNCHANGED <<StoreVars, op>>

\* Mutant: a failed insert rolls back the documents this call inserted.
SeedInsertRaises_RollsBack(p) ==
    /\ pc[p] = "seed_insert"
    /\ Log(p, <<"raised", idx[p]>>)
    /\ Finish(p, Http(500, StoreError))
    /\ products' = SubSeq(products, 1, Len(products) - (idx[p] - 1))
    /\ UNCHANGED <<dbHandle, orders, nextOid, op>>

SeedInsertRaises(p) ==
    /\ pc[p] = "seed_insert"
    /\ Log(p, <<"raised", idx[p]>>)
    /\ Finish(p, Http(500, StoreError))
    /\ UNCHANGED <<StoreVars, op>>

\* ------------------------------------------------------------ list_products
StartList(p) ==
    /\ Begin(p, "list_products", "list_fetch")
    /\ UNCHANGED <<StoreVars, req, idx, count, report, resp, okAtStart, trace>>

\* Mutant: the pop of _id is forgotten.
PublicProduct_KeepsId(d) ==
    [k \in DOMAIN d \cup {"id"} |-> IF k = "id" THEN OidStr(d._id) ELSE d[k]]

\* d["id"] = str(d.get("_id")); d.pop("_id", None)
PublicProduct(d) ==
    [k \in (DOMAIN d \ {"_id"}) \cup {"id"} |->
        IF k = "id" THEN OidStr(d._id) ELSE d[k]]

\* docs = get_documents("product"); rewrite each; return products
GetDocuments(p) ==
    /\ pc[p] = "list_fetch"
    /\ dbHandle
    /\ Log(p, <<"get_documents", 1>>)
    /\ Finish(p, Ok([i \in 1..Len(products) |-> PublicProduct(products[i])]))
    /\ UNCHANGED <<StoreVars, op>>

\* get_documents raises: except Exception -> 500.
GetDocumentsRaises(p) ==
    /\ pc[p] = "list_fetch"
    /\ Log(p, <<"raised", 0>>)
    /\ Finish(p, Http(500, StoreError))
    /\ UNCHANGED <<StoreVars, op>>

\* ------------------------------------------------------------ test_database
StartTest(p) ==
    /\ Begin(p, "test_database", "test_handle")
    /\ report' = [report EXCEPT ![p] =
                    [backend |-> "Running",
                     database |-> "Not Available",
                     database_url |-> "None",
                     database_name |-> "None",
                     connection_status |-> "Not Connected",
                     collections |-> <<>>]]
    /\ UNCHANGED <<StoreVars, req, idx, count, resp, okAtStart, trace>>

\* The environment check that ends test_database; env is what os.getenv
\* finds set when it is read.
WithEnv(r, env) ==
    [r EXCEPT
        !.database_url = IF "DATABASE_URL" \in env THEN "Set" ELSE "Not Set",
        !.database_name = IF "DATABASE_NAME" \in env THEN "Set" ELSE "Not Set"]

\* list_collection_names(): the collections that hold a document.
CollectionNames ==
    (IF products # <<>> THEN <<"product">> ELSE <<>>)
        \o (IF orders # <<>> THEN <<"order">> ELSE <<>>)

\* collections[:10]
FirstTen(s) == SubSeq(s, 1, IF Len(s) < 10 THEN Len(s) ELSE 10)

\* if _db is not None: ... "Connected" ... else: "not initialized"
TestHandle(p, env) ==
    /\ pc[p] = "test_handle"
    /\ IF dbHandle
       THEN /\ report' = [report EXCEPT ![p] =
                            [@ EXCEPT !.database = "Available",
                                      !.database_url = "Configured",
                                      !.database_name = "name",
                                      !.connection_status = "Connected"]]
            /\ pc' = [pc EXCEPT ![p] = "test_list"]
            /\ UNCHANGED <<resp, req, idx, count, okAtStart>>
       ELSE Finish(p, Ok(WithEnv([report[p] EXCEPT
                !.database = "Available but not initialized"], env)))
    /\ UNCHANGED <<StoreVars, op, trace>>

\* collections = _db.list_collection_names(); response["collections"] = [:10]
ListCollectionNames(p, env) ==
    /\ pc[p] = "test_list"
    /\ Log(p, <<"list_collection_names", 1>>)
    /\ Finish(p, Ok(WithEnv([report[p] EXCEPT
            !.collections = FirstTen(CollectionNames),
            !.database = "Connected & Working"], env)))
    /\ UNCHANGED <<StoreVars, op>>

\* list_collection_names() raises: except Exception -> "Connected but Error"
ListCollectionNamesRaises(p, env) ==
    /\ pc[p] = "test_list"
    /\ Log(p, <<"raised", 0>>)
    /\ Finish(p, Ok(WithEnv([report[p] EXCEPT
            !.database = "Connected but Error"], env)))
    /\ UNCHANGED <<StoreVars, op>>

\* ------------------------------------------------------------ specifications
\* The client has its response; the task is free for the next request.
Return(p) ==
    /\ pc[p] = "done"
    /\ op' = [op EXCEPT ![p] = "none"]
    /\ pc' = [pc EXCEPT ![p] = "idle"]
    /\ resp' = [resp EXCEPT ![p] = NoResp]
    /\ trace' = [trace EXCEPT ![p] = <<>>]
    /\ UNCHANGED <<StoreVars, req, idx, count, report, okAtStart>>

\* One step of task p while every store call succeeds.
OrderStep(p) ==
    \/ \E items \in OrderRequests : StartCreateOrder(p, items)
    \/ IsValidCheck(p)
    \/ FindOne(p)
    \/ InsertOrder(p)

SeedStep(p) ==
    \/ StartSeed(p)
    \/ CountDocuments(p)
    \/ SeedInsert(p)

ListStep(p) ==
    \/ StartList(p)
    \/ GetDocuments(p)

TestStep(p) ==
    \/ StartTest(p)
    \/ \E env \in SUBSET EnvVars : TestHandle(p, env)
    \/ \E env \in SUBSET EnvVars : ListCollectionNames(p, env)

Step(p) ==
    \/ OrderStep(p)
    \/ SeedStep(p)
    \/ ListStep(p)
    \/ TestStep(p)
    \/ Return(p)

\* One step of task p in which a store call raises.
Raise(p) ==
    \/ CountDocumentsRaises(p)
    \/ SeedInsertRaises(p)
    \/ GetDocumentsRaises(p)
    \/ \E env \in SUBSET EnvVars : ListCollectionNamesRaises(p, env)

\* No other task is inside a handler.
Alone(p) == \A q \in Procs \ {p} : pc[q] \in {"idle", "done"}

Next == \E p \in Procs : Step(p)
NextSeq == \E p \in Procs : Alone(p) /\ Step(p)
NextFault ==
    \E p \in Procs :
        SeedStep(p) \/ ListStep(p) \/ TestStep(p) \/ Return(p) \/ Raise(p)

\* Concurrent requests, store reachable and every store call succeeds.
Spec == Init /\ [][Next]_vars
\* Requests handled one after the other, every store call succeeds.
SpecSeq == Init /\ [][NextSeq]_vars
\* Concurrent seeding, listing and diagnostics requests; the store handle may
\* be absent and any store call may raise.  Order requests are left to Spec:
\* a store call that raises inside create_order ends the request with 500 and
\* writes nothing.
SpecFault == InitFault /\ [][NextFault]_vars

\* ------------------------------------------------------------------ claims
\* Task p's handler o ends in this step.
Completes(p, o) == op[p] = o /\ pc[p] # "done" /\ pc'[p] = "done"

Malformed(items) == {i \in 1..Len(items) : ~IsValid(items[i].product_id)}

FirstOf(S) == CHOOSE i \in S : \A j \in S : i <= j

Inserts(t) == {k \in 1..Len(t) : t[k][1] = "insert"}

\* C1: an order request whose items were all well-formed and referenced stored
\* products when it arrived succeeds: the request makes exactly one insert,
\* the order collection grows by exactly the requested order, and the response
\* is 200 {id, status "created"} where id is the string of the new document's
\* identifier and differs from the id of every order stored before.
C1_ValidOrderCreated ==
    [][\A p \in Procs :
        (Completes(p, "create_order") /\ okAtStart[p]) =>
            /\ resp'[p].status = 200
            /\ resp'[p].body.status = "created"
            /\ Cardinality(Inserts(trace'[p])) = 1
            /\ Len(orders') = Len(orders) + 1
            /\ SubSeq(orders', 1, Len(orders)) = orders
            /\ orders'[Len(orders')].items = req[p]
            /\ resp'[p].body.id = OidStr(orders'[Len(orders')]._id)
            /\ \A i \in 1..Len(orders) :
                  OidStr(orders[i]._id) # resp'[p].body.id]_vars

\* A second order, with a line item, was created and answered with its id.
C1_Witness ==
    \E p \in Procs :
        /\ op[p] = "create_order" /\ pc[p] = "done"
        /\ resp[p].status = 200
        /\ Len(orders) = 2
        /\ orders[2].items # <<>>
        /\ resp[p].body.id = OidStr(orders[2]._id)
        /\ resp[p].body.id # OidStr(orders[1]._id)

\* C2 as stated: an order request with a malformed product_id anywhere in the
\* list fails with 400 and leaves the order collection unchanged.
C2_MalformedAlways400 ==
    [][\A p \in Procs :
        (Completes(p, "create_order") /\ Malformed(req[p]) # {}) =>
            (resp'[p].status = 400 /\ orders' = orders)]_vars

\* C2 amended: an order request with a malformed product_id fails and leaves
\* the order collection unchanged; it fails with 400 naming the first malformed
\* item, unless an item before that one is well-formed but absent from the
\* product collection when looked up, and then with 404 naming that item.
C2_MalformedRejected ==
    [][\A p \in Procs :
        (Completes(p, "create_order") /\ Malformed(req[p]) # {}) =>
            LET m == FirstOf(Malformed(req[p]))
            IN  /\ orders' = orders
                /\ \/ resp'[p] = Http(400, <<"Invalid product id: ",
                                            req[p][m].product_id>>)
                   \/ \E j \in 1..(m - 1) :
                        /\ ~ItemResolves(req[p][j])
                        /\ resp'[p] = Http(404, <<"Product not found: ",
                                                 req[p][j].product_id>>)]_vars

\* A two-item request was rejected with 400 at its second item, after the
\* first item had passed both checks.
C2_Witness ==
    \E p \in Procs :
        /\ op[p] = "create_order" /\ pc[p] = "done"
        /\ resp[p].status = 400
        /\ trace[p] = << <<"request", 2>>, <<"is_valid", 1>>,
                         <<"find_one", 1>>, <<"is_valid", 2>> >>

\* C3: an order request whose product_ids are all well-formed, one of them
\* matching no product of the collection, fails with 404 and leaves the order
\* collection unchanged.
C3_AbsentProductRejected ==
    [][\A p \in Procs :
        ( /\ Completes(p, "create_order")
          /\ Malformed(req[p]) = {}
          /\ ~AllResolve(req[p]) ) =>
            (resp'[p].status = 404 /\ orders' = orders)]_vars

\* A two-item request was rejected with 404 at its second item, the first
\* item having referenced a stored product.
C3_Witness ==
    \E p \in Procs :
        /\ op[p] = "create_order" /\ pc[p] = "done"
        /\ resp[p].status = 404
        /\ trace[p] = << <<"request", 2>>, <<"is_valid", 1>>,
                         <<"find_one", 1>>, <<"is_valid", 2>>,
                         <<"find_one", 2>> >>

Seeded == Ok([message |-> "Seeded", count |-> Len(Demo)])

AlreadySeeded(n) == Ok([message |-> "Products already seeded", count |-> n])

\* C4: with requests handled one after the other from an empty product
\* collection, seeding is idempotent: the collection never holds more than the
\* demo products, a finished seed call leaves exactly those, answered "Seeded"
\* with their count by the call that inserted them and "already seeded" with
\* the same count by a call that found them, and no two calls both insert.
C4_SequentialSeedTwice ==
    /\ Len(products) <= Len(Demo)
    /\ \A p \in Procs :
        (op[p] = "seed_products" /\ pc[p] = "done") =>
            /\ Len(products) = Len(Demo)
            /\ \/ resp[p] = Seeded /\ Inserts(trace[p]) # {}
               \/ resp[p] = AlreadySeeded(Len(Demo)) /\ Inserts(trace[p]) = {}
    /\ \A p, q \in Procs :
        ( /\ p # q
          /\ op[p] = "seed_products" /\ pc[p] = "done"
          /\ op[q] = "seed_products" /\ pc[q] = "done" ) =>
            ~(resp[p] = Seeded /\ resp[q] = Seeded)

\* Two seed calls have run one after the other: one seeded, one found the
\* collection seeded, and the collection holds the demo products once.
C4_Witness ==
    \E p, q \in Procs :
        /\ op[p] = "seed_products" /\ pc[p] = "done" /\ resp[p] = Seeded
        /\ op[q] = "seed_products" /\ pc[q] = "done"
        /\ resp[q] = AlreadySeeded(Len(Demo))
        /\ Len(products) = Len(Demo)

\* C5 as stated: a finished test_database call that found the store
\* unreachable (no handle, or list_collection_names raised) answers 200 with a
\* connection_status other than "Connected".
C5_UnreachableNotConnected ==
    \A p \in Procs :
        ( /\ op[p] = "test_database" /\ pc[p] = "done"
          /\ (~dbHandle \/ trace[p] = << <<"raised", 0>> >>) ) =>
            /\ resp[p].status = 200
            /\ resp[p].body.connection_status # "Connected"

\* C6: list_products answers 200 with one entry per document of the product
\* collection, in store order; each entry has the document's fields without
\* _id and a string id that is the string form of the document's identifier
\* (and parses back to it); an empty collection gives the empty sequence.
C6_ListProducts ==
    [][\A p \in Procs :
        Completes(p, "list_products") =>
            /\ resp'[p].status = 200
            /\ Len(resp'[p].body) = Len(products)
            /\ products = <<>> => resp'[p].body = <<>>
            /\ \A i \in 1..Len(products) :
                LET e == resp'[p].body[i]
                    d == products[i]
                IN  /\ DOMAIN e = (DOMAIN d \ {"_id"}) \cup {"id"}
                    /\ "_id" \notin DOMAIN e
                    /\ e.id = OidStr(d._id)
                    /\ IsValid(e.id) /\ ObjectId(e.id) = d._id
                    /\ \A k \in DOMAIN d \ {"_id"} : e[k] = d[k]]_vars

\* The seeded products have been listed.
C6_Witness ==
    \E p \in Procs :
        /\ op[p] = "list_products" /\ pc[p] = "done"
        /\ resp[p].status = 200
        /\ Len(resp[p].body) = Len(Demo)
        /\ resp[p].body[1].id = SeedId
        /\ resp[p].body[1].title = Demo[1].title

\* C7: every stored order has only line items whose product_id is well-formed
\* and resolves to a stored product.
C7_StoredOrdersResolve ==
    \A i \in 1..Len(orders) : AllResolve(orders[i].items)

\* An order with two line items is stored while the collection holds the
\* demo data of two concurrent seed calls.
C7_Witness ==
    /\ Len(products) > Len(Demo)
    /\ \E i \in 1..Len(orders) : Len(orders[i].items) = 2

\* C8: seeding is an unguarded check-then-act: a seed call that has read count
\* 0 inserts each of its demo products whatever the collection holds by then,
\* and answers "Seeded" with the demo count after the last one.
C8_SeedInsertUnguarded ==
    [][\A p \in Procs :
        (pc[p] = "seed_insert" /\ trace'[p] # trace[p]) =>
            /\ products' = Append(products,
                   StoredProduct(Demo[idx[p]], nextOid["product"]))
            /\ idx[p] = Len(Demo) => resp'[p] = Seeded]_vars

\* Two concurrent seed calls both answered "Seeded" and the collection holds
\* the demo products twice.
C8_Witness ==
    /\ Len(products) = 2 * Len(Demo)
    /\ \A p \in Procs :
        /\ op[p] = "seed_products" /\ pc[p] = "done"
        /\ resp[p] = Seeded
        /\ trace[p][1] = <<"count_documents", 1>>

\* What create_order does for a request of n items when every check passes.
Canon(n) ==
    << <<"request", n>> >>
        \o [k \in 1..(2 * n) |->
              IF k % 2 = 1 THEN <<"is_valid", (k + 1) \div 2>>
              ELSE <<"find_one", k \div 2>>]
        \o << <<"insert", 0>> >>

IsPrefix(s, t) == Len(s) <= Len(t) /\ SubSeq(t, 1, Len(s)) = s

\* C9: create_order checks the items in the order given, format before
\* lookup, and stops at the first item that fails: a 400 names an item that is
\* malformed and was format-checked last, a 404 names an item that is
\* well-formed, absent and was looked up last; in both cases every earlier
\* item passed both checks and nothing was done for a later item; the insert
\* comes only after the last item passed both checks.
C9_FailFastInOrder ==
    [][\A p \in Procs :
        (op[p] = "create_order" /\ pc[p] # "done") =>
            LET items == req[p]
                t == trace'[p]
                last == t[Len(t)]
                id(i) == items[i].product_id
            IN  /\ IsPrefix(t, Canon(Len(items)))
                /\ Completes(p, "create_order") =>
                    \/ \E i \in 1..Len(items) :
                        /\ last = <<"is_valid", i>>
                        /\ ~IsValid(id(i))
                        /\ resp'[p] = Http(400, <<"Invalid product id: ", id(i)>>)
                        /\ \A j \in 1..(i - 1) : ItemResolves(items[j])
                    \/ \E i \in 1..Len(items) :
                        /\ last = <<"find_one", i>>
                        /\ IsValid(id(i)) /\ ~ItemResolves(items[i])
                        /\ resp'[p] = Http(404, <<"Product not found: ", id(i)>>)
                        /\ \A j \in 1..(i - 1) : ItemResolves(items[j])
                    \/ /\ last = <<"insert", 0>>
                       /\ t = Canon(Len(items))
                       /\ AllResolve(items)
                       /\ resp'[p].status = 200]_vars

\* A two-item request was rejected at its first item: the second item was
\* neither format-checked nor looked up.
C9_Witness ==
    \E p \in Procs :
        /\ op[p] = "create_order" /\ pc[p] = "done"
        /\ resp[p].status = 404
        /\ trace[p] = << <<"request", 2>>, <<"is_valid", 1>>,
                         <<"find_one", 1>> >>

\* Some but not all demo products are stored and no seed call is inserting.
PartialSeed ==
    /\ Len(products) \in 1..(Len(Demo) - 1)
    /\ \A p \in Procs : pc[p] # "seed_insert"

\* C10: seeding neither rolls back nor retries.  A seed call whose insert
\* raises answers 500 and leaves the collection as it is; a seed call that
\* finds k > 0 products answers "already seeded" with count k and inserts
\* nothing; so once a failed call has left some but not all demo products and
\* no other call is inserting, the collection stays as it is for good.
C10_PartialSeedStays ==
    [][/\ \A p \in Procs :
            (pc[p] = "seed_insert" /\ Completes(p, "seed_products")
                /\ resp'[p] # Seeded) =>
                /\ resp'[p].status = 500
                /\ products' = products
                /\ Len(products) >= idx[p] - 1
       /\ \A p \in Procs :
            (pc[p] = "seed_count" /\ Len(products) > 0
                /\ Completes(p, "seed_products") /\ resp'[p].status # 500) =>
                /\ resp'[p] = AlreadySeeded(Len(products))
                /\ products' = products
       /\ PartialSeed => (products' = products /\ PartialSeed')]_vars

\* A seed call failed after one insert; a later call found the one product
\* and answered "already seeded" with count 1.
C10_Witness ==
    \E p, q \in Procs :
        /\ op[p] = "seed_products" /\ pc[p] = "done"
        /\ resp[p].status = 500
        /\ trace[p] = << <<"count_documents", 1>>, <<"insert", 1>>,
                         <<"raised", 2>> >>
        /\ op[q] = "seed_products" /\ pc[q] = "done"
        /\ resp[q] = AlreadySeeded(1)
        /\ Len(products) = 1

====
